---- MODULE Spec2Model ----
(***************************************************************************)
(* Event collector: the circuit breaker of pulsar_client.py, the producer  *)
(* pool (PulsarProducer) and the click endpoint of app.py.                  *)
(*                                                                         *)
(* Spec      one event loop: every handler runs to completion (the         *)
(*           handlers are coroutines without a suspension point between    *)
(*           the breaker's check and its update).                          *)
(* SpecConc  CircuitBreaker.call entered by several callers at once, one   *)
(*           statement at a time (the class holds no lock).                *)
(* SpecCmd   startup and clicks of several campaigns: the commands sent.   *)
(* SpecOps   every operation of the app: the three collect endpoints with  *)
(*           validated bodies, the health check, shutdown, the clock.      *)
(* SpecPool  the producer pool alone: startup and shutdown with any subset *)
(*           of the topics failing, the health check.                      *)
(* SpecCodec building a click command from a request and encoding it: the  *)
(*           pure functions, applied to requests drawn from a bounded set. *)
(* SpecPipe  the click pipeline a stage at a time (validated, encoded,     *)
(*           sent) on one event loop, with weak fairness of the running    *)
(*           handler.                                                      *)
(* SpecLive  CircuitBreaker.call called without end while time passes,     *)
(*           with weak fairness of the clock and of the callers.           *)
(***************************************************************************)
EXTENDS Integers, Sequences, FiniteSets, TLC

\* ------------------------------------------------------------------ bounds
MaxThreshold == 2      \* failure_threshold is drawn from 1..MaxThreshold
MaxRecovery  == 2      \* recovery_timeout is drawn from 1..MaxRecovery
MaxTime      == 5      \* the clock stops at MaxTime
MaxCalls     == 4      \* requests handled in one run
MaxThreads   == 2      \* concurrent callers of CircuitBreaker.call (SpecConc)
MaxOps       == 3      \* requests handled in one run of SpecOps, SpecCmd, SpecPipe

\* ------------------------------------------------------------------ values
\* CircuitBreakerState
CLOSED    == "closed"
OPEN      == "open"
HALF_OPEN == "half_open"

\* Python values: None, a str, str(uuid.uuid4())
None      == [tag |-> "None"]
Str(s)    == [tag |-> "str", v |-> s]
\* str(uuid.uuid4()): the i-th value drawn while handling request number n
Uuid(n, i) == [tag |-> "uuid4", n |-> n, i |-> i]

\* Python truthiness of an Optional[str]: None and "" are falsy
Truthy(x) == x # None /\ x # Str("")

\* x or y
Or(x, y)  == IF Truthy(x) THEN x ELSE y

\* Settings: the topics of the producer pool
tracking_click_topic      == "cmd.tracking.registerClick.v1"
tracking_impression_topic == "cmd.tracking.registerImpression.v1"
tracking_conversion_topic == "cmd.tracking.registerConversion.v1"
campaign_create_topic     == "cmd.campaign.createCampaign.v1"
partner_register_topic    == "cmd.partner.registerPartner.v1"

topics == << tracking_click_topic, tracking_impression_topic,
             tracking_conversion_topic, campaign_create_topic,
             partner_register_topic >>

TopicSet == { topics[i] : i \in 1..Len(topics) }

\* the click ids a caller may put in a CollectClickRequest (Optional[str])
ClickIdInputs == { None, Str(""), Str("c1") }

CampaignIds == { "camp-1" }

PartnerIds == { "p-1" }

\* validate_params: the most entries a utm_params or custom_params dict may have
MaxParams == 20

\* a Dict[str, str] with the keys k (keys are numbered) ...
ParamDictOf(k) == [ i \in k |-> "v" ]

\* ... and one with the n keys 1..n
ParamDict(n) == ParamDictOf(1..n)

\* len(d)
len(d) == Cardinality(DOMAIN d)

\* {**a, **b}
Merge(a, b) ==
    [ k \in DOMAIN a \cup DOMAIN b |-> IF k \in DOMAIN b THEN b[k] ELSE a[k] ]

\* the address the handler was called from, as get_client_ip returns it
ClientIp == Str("10.0.0.1")

\* the custom_params a caller may send: the most allowed, one more
ParamInputs == { ParamDict(MaxParams), ParamDict(MaxParams + 1) }

\* the ids a caller may put in an impression or a conversion request
EventIdInputs == { None, Str("e1") }

VARIABLES
    phase,            \* lifespan: "created", "serving", "stopped"
    settings,         \* Settings: debug and the breaker's two parameters
    tracking_pb2,     \* TRUE iff the generated schema classes were imported
    pulsar_producer,  \* app.pulsar_producer: "None" or "PulsarProducer"
    connected,        \* PulsarProducer._connected
    client,           \* PulsarProducer.client: "None", "open", "closed"
    producers,        \* PulsarProducer.producers: the topics that have a producer
    cb,               \* PulsarProducer.circuit_breaker
    now,              \* time.time()
    calls,            \* requests handled so far (request n draws Uuid(n, _))
    last,             \* the last request handled and what it did
    hist,             \* what the run has seen (see Hist0)
    pc, loc           \* SpecConc: the callers inside CircuitBreaker.call

vars == << phase, settings, tracking_pb2, pulsar_producer, connected, client,
           producers, cb, now, calls, last, hist, pc, loc >>

\* --------------------------------------------------------- CircuitBreaker
\* CircuitBreaker.__init__
CircuitBreaker(failure_threshold, recovery_timeout) ==
    [ failure_threshold |-> failure_threshold,
      recovery_timeout  |-> recovery_timeout,
      failure_count     |-> 0,
      last_failure_time |-> None,
      state             |-> CLOSED ]

\* a breaker that tries again as soon as recovery_timeout has elapsed
_should_attempt_reset_at_timeout(b, t) ==
    (t - b.last_failure_time) >= b.recovery_timeout

\* a breaker that subtracts the wrong way round
_should_attempt_reset_swapped(b, t) ==
    (b.last_failure_time - t) > b.recovery_timeout

\* time.time() - self.last_failure_time > self.recovery_timeout
\* (last_failure_time is an integer whenever the breaker is OPEN)
_should_attempt_reset(b, t) ==
    (t - b.last_failure_time) > b.recovery_timeout

\* a breaker that closes on success and keeps its count
_on_success_keeps_count(b) ==
    [ b EXCEPT !.state = CLOSED ]

_on_success(b) ==
    [ b EXCEPT !.failure_count = 0, !.state = CLOSED ]

\* a breaker that opens one failure late
_on_failure_opens_late(b, t) ==
    LET n == b.failure_count + 1 IN
    [ b EXCEPT !.failure_count = n,
               !.last_failure_time = t,
               !.state = IF n > b.failure_threshold THEN OPEN ELSE @ ]

\* a breaker whose cool-down clock is not restarted by a failed trial
_on_failure_keeps_time(b, t) ==
    LET n == b.failure_count + 1 IN
    [ b EXCEPT !.failure_count = n,
               !.last_failure_time = IF b.state = HALF_OPEN THEN @ ELSE t,
               !.state = IF n >= b.failure_threshold THEN OPEN ELSE @ ]

_on_failure(b, t) ==
    LET n == b.failure_count + 1 IN
    [ b EXCEPT !.failure_count = n,
               !.last_failure_time = t,
               !.state = IF n >= b.failure_threshold THEN OPEN ELSE @ ]

\* The check at the head of CircuitBreaker.call:
\* "reject" raises "Circuit breaker is OPEN", "trial" sets HALF_OPEN and goes on,
\* "pass" goes on
Gate(b, t) ==
    IF b.state = OPEN
    THEN IF _should_attempt_reset(b, t) THEN "trial" ELSE "reject"
    ELSE "pass"

\* a breaker that counts a rejected call as a failure
call_counts_rejects(b, t, f) ==
    LET g  == Gate(b, t)
        b1 == IF g = "trial" THEN [ b EXCEPT !.state = HALF_OPEN ] ELSE b
    IN  IF g = "reject"
        THEN [ cb |-> _on_failure(b, t), gate |-> g, invoked |-> FALSE,
               ran_in |-> b.state,
               raised |-> TRUE, error |-> "Circuit breaker is OPEN",
               value |-> None, sends |-> 0 ]
        ELSE IF f.raised
        THEN [ cb |-> _on_failure(b1, t), gate |-> g, invoked |-> TRUE,
               ran_in |-> b1.state,
               raised |-> TRUE, error |-> f.error,
               value |-> None, sends |-> f.sends ]
        ELSE [ cb |-> _on_success(b1), gate |-> g, invoked |-> TRUE,
               ran_in |-> b1.state,
               raised |-> FALSE, error |-> "",
               value |-> f.value, sends |-> f.sends ]

\* a breaker that invokes func a second time when it raised
call_retries(b, t, f) ==
    LET g  == Gate(b, t)
        b1 == IF g = "trial" THEN [ b EXCEPT !.state = HALF_OPEN ] ELSE b
    IN  IF g = "reject"
        THEN [ cb |-> b, gate |-> g, invoked |-> FALSE, ran_in |-> b.state,
               raised |-> TRUE, error |-> "Circuit breaker is OPEN",
               value |-> None, sends |-> 0 ]
        ELSE IF f.raised
        THEN [ cb |-> _on_failure(b1, t), gate |-> g, invoked |-> TRUE,
               ran_in |-> b1.state,
               raised |-> TRUE, error |-> f.error,
               value |-> None, sends |-> f.sends + f.sends ]
        ELSE [ cb |-> _on_success(b1), gate |-> g, invoked |-> TRUE,
               ran_in |-> b1.state,
               raised |-> FALSE, error |-> "",
               value |-> f.value, sends |-> f.sends ]

\* CircuitBreaker.call(func) at time t, where func, if it is invoked, ends as
\* f = [raised, error, value, sends].
\* Result: the breaker afterwards, whether func was invoked, the state func
\* ran in, and what call raises or returns.
call(b, t, f) ==
    LET g  == Gate(b, t)
        b1 == IF g = "trial" THEN [ b EXCEPT !.state = HALF_OPEN ] ELSE b
    IN  IF g = "reject"
        THEN [ cb |-> b, gate |-> g, invoked |-> FALSE, ran_in |-> b.state,
               raised |-> TRUE, error |-> "Circuit breaker is OPEN",
               value |-> None, sends |-> 0 ]
        ELSE IF f.raised
        THEN [ cb |-> _on_failure(b1, t), gate |-> g, invoked |-> TRUE,
               ran_in |-> b1.state,
               raised |-> TRUE, error |-> f.error,
               value |-> None, sends |-> f.sends ]
        ELSE [ cb |-> _on_success(b1), gate |-> g, invoked |-> TRUE,
               ran_in |-> b1.state,
               raised |-> FALSE, error |-> "",
               value |-> f.value, sends |-> f.sends ]

\* --------------------------------------------------------- PulsarProducer
\* the loop of _create_producers from topics[i] on; ok: the topics whose
\* create_producer returns. attempted: the topics create_producer was called for.
RECURSIVE create_from(_, _, _)
create_from(i, ok, acc) ==
    IF i > Len(topics) THEN acc
    ELSE create_from(i + 1, ok,
            [ producers |-> IF topics[i] \in ok
                            THEN acc.producers \cup { topics[i] }
                            ELSE acc.producers,
              attempted |-> Append(acc.attempted, topics[i]) ])

\* a loop that gives up at the first topic whose creation fails
RECURSIVE create_until_failure(_, _, _)
create_until_failure(i, ok, acc) ==
    IF i > Len(topics) THEN acc
    ELSE IF topics[i] \in ok
    THEN create_until_failure(i + 1, ok,
            [ producers |-> acc.producers \cup { topics[i] },
              attempted |-> Append(acc.attempted, topics[i]) ])
    ELSE [ acc EXCEPT !.attempted = Append(@, topics[i]) ]

\* a pool that stops provisioning at the first failure
_create_producers_stops(ok) ==
    create_until_failure(1, ok, [ producers |-> {}, attempted |-> << >> ])

\* PulsarProducer._create_producers: a failing create_producer is logged and
\* the loop continues
_create_producers(ok) ==
    create_from(1, ok, [ producers |-> {}, attempted |-> << >> ])

\* the producers of the pool in the order of self.producers.items()
\* (insertion order: the order of topics)
Items(prods) == SelectSeq(topics, LAMBDA tp : tp \in prods)

\* the close() calls on the producers: one per producer, failing or not
ProducerCloses(prods, failing) ==
    [ i \in 1..Len(Items(prods)) |->
        [ what |-> "producer", topic |-> Items(prods)[i],
          ok |-> Items(prods)[i] \notin failing ] ]

\* a shutdown that is aborted by the first close() that fails
disconnect_aborts(conn, cl, prods, failing, clientOk) ==
    LET pcs  == ProducerCloses(prods, failing)
        bad  == { i \in 1..Len(pcs) : ~pcs[i].ok }
        stop == IF bad = {} THEN Len(pcs)
                ELSE CHOOSE i \in bad : \A j \in bad : i <= j
        ccs  == IF cl # "None" /\ bad = {}
                THEN << [ what |-> "client", topic |-> "", ok |-> clientOk ] >>
                ELSE << >>
        done == bad = {} /\ (cl = "None" \/ clientOk)
    IN  IF ~conn
        THEN [ connected |-> conn, client |-> cl, producers |-> prods,
               closes |-> << >>, raised |-> FALSE ]
        ELSE [ connected |-> ~done,
               client    |-> IF cl # "None" /\ done THEN "closed" ELSE cl,
               producers |-> prods,
               closes    |-> SubSeq(pcs, 1, stop) \o ccs,
               raised    |-> FALSE ]

\* PulsarProducer.disconnect. failing: the producers whose close() raises;
\* clientOk: whether client.close() returns.
\* Result: the pool afterwards, the close() calls made in order, and whether
\* disconnect raised. A failing client.close() skips self._connected = False;
\* self.producers is left as it is.
disconnect(conn, cl, prods, failing, clientOk) ==
    LET pcs  == ProducerCloses(prods, failing)
        ccs  == IF cl # "None"
                THEN << [ what |-> "client", topic |-> "", ok |-> clientOk ] >>
                ELSE << >>
        done == cl = "None" \/ clientOk
    IN  IF ~conn
        THEN [ connected |-> conn, client |-> cl, producers |-> prods,
               closes |-> << >>, raised |-> FALSE ]
        ELSE [ connected |-> ~done,
               client    |-> IF cl # "None" /\ done THEN "closed" ELSE cl,
               producers |-> prods,
               closes    |-> pcs \o ccs,
               raised    |-> FALSE ]

\* a status that counts the configured topics instead of the producers held
get_health_status_counts_topics(conn, b, prods) ==
    [ connected             |-> conn,
      circuit_breaker_state |-> b.state,
      failure_count         |-> b.failure_count,
      producers_count       |-> Len(topics) ]

\* PulsarProducer.get_health_status
get_health_status(conn, b, prods) ==
    [ connected             |-> conn,
      circuit_breaker_state |-> b.state,
      failure_count         |-> b.failure_count,
      producers_count       |-> Cardinality(prods) ]

\* PulsarProducer._create_meta(event_id), as the i-th draw of request n
_create_meta(event_id, n, i) ==
    [ event_id |-> Or(event_id, Uuid(n, i)) ]

\* "if x: cmd.f = x": the value of the field, None when it is never assigned
IfSet(x) == IF Truthy(x) THEN x ELSE None

\* a command that always gets a generated click_id
RegisterClickCommand_generates(req, ip_address, n) ==
    [ command_id  |-> Uuid(n, 1),
      click_id    |-> Uuid(n, 2),
      campaign_id |-> req.campaign_id,
      partner_id  |-> req.partner_id,
      session_id  |-> IfSet(req.session_id),
      user_agent  |-> IfSet(req.user_agent),
      ip_address  |-> IfSet(ip_address),
      referrer    |-> IfSet(req.referrer),
      landing_url |-> IfSet(req.landing_url),
      metadata    |-> Merge(req.utm_params, req.custom_params),
      meta        |-> _create_meta(None, n, 3) ]

\* a command whose optional fields are assigned whatever their input is
RegisterClickCommand_writes_all(req, ip_address, n) ==
    [ command_id  |-> Uuid(n, 1),
      click_id    |-> Or(req.click_id, Uuid(n, 2)),
      campaign_id |-> req.campaign_id,
      partner_id  |-> req.partner_id,
      session_id  |-> Or(req.session_id, Str("")),
      user_agent  |-> Or(req.user_agent, Str("")),
      ip_address  |-> Or(ip_address, Str("")),
      referrer    |-> Or(req.referrer, Str("")),
      landing_url |-> Or(req.landing_url, Str("")),
      metadata    |-> Merge(req.utm_params, req.custom_params),
      meta        |-> _create_meta(None, n, 3) ]

\* a command whose referrer and landing_url are taken from each other's input
RegisterClickCommand_swaps_urls(req, ip_address, n) ==
    [ command_id  |-> Uuid(n, 1),
      click_id    |-> Or(req.click_id, Uuid(n, 2)),
      campaign_id |-> req.campaign_id,
      partner_id  |-> req.partner_id,
      session_id  |-> IfSet(req.session_id),
      user_agent  |-> IfSet(req.user_agent),
      ip_address  |-> IfSet(ip_address),
      referrer    |-> IfSet(req.landing_url),
      landing_url |-> IfSet(req.referrer),
      metadata    |-> Merge(req.utm_params, req.custom_params),
      meta        |-> _create_meta(None, n, 3) ]

\* The command publish_click_command builds before it sends, in request n:
\* command_id draws a uuid, click_id draws one when the request has none, the
\* optional fields are assigned when their input is truthy (ip_address from the
\* argument, not from the request), metadata is the utm_params overlaid with
\* the custom_params, and _create_meta() is called without an event_id.
RegisterClickCommand(req, ip_address, n) ==
    [ command_id  |-> Uuid(n, 1),
      click_id    |-> Or(req.click_id, Uuid(n, 2)),
      campaign_id |-> req.campaign_id,
      partner_id  |-> req.partner_id,
      session_id  |-> IfSet(req.session_id),
      user_agent  |-> IfSet(req.user_agent),
      ip_address  |-> IfSet(ip_address),
      referrer    |-> IfSet(req.referrer),
      landing_url |-> IfSet(req.landing_url),
      metadata    |-> Merge(req.utm_params, req.custom_params),
      meta        |-> _create_meta(None, n, 3) ]

\* a send that does nothing, and returns, when the topic has no producer
send_message_skips_missing(prods, cmd, sendOk) ==
    LET msg == [ topic |-> tracking_click_topic,
                 partition_key |-> cmd.campaign_id ]
    IN  IF tracking_click_topic \notin prods
        THEN [ raised |-> FALSE, error |-> "", value |-> cmd.click_id,
               sends |-> 0, msg |-> None ]
        ELSE IF sendOk
        THEN [ raised |-> FALSE, error |-> "", value |-> cmd.click_id,
               sends |-> 1, msg |-> msg ]
        ELSE [ raised |-> TRUE, error |-> "send failed", value |-> None,
               sends |-> 1, msg |-> msg ]

\* a send keyed by the partner instead of the campaign
send_message_by_partner(prods, cmd, sendOk) ==
    LET msg == [ topic |-> tracking_click_topic,
                 partition_key |-> cmd.partner_id ]
    IN  IF tracking_click_topic \notin prods
        THEN [ raised |-> TRUE, error |-> "Producer no encontrado",
               value |-> None, sends |-> 0, msg |-> None ]
        ELSE IF sendOk
        THEN [ raised |-> FALSE, error |-> "", value |-> cmd.click_id,
               sends |-> 1, msg |-> msg ]
        ELSE [ raised |-> TRUE, error |-> "send failed", value |-> None,
               sends |-> 1, msg |-> msg ]

\* send_message, the closure handed to the breaker: what it does if invoked.
\* sendOk: whether producer.send returns (TRUE) or raises (FALSE).
\* msg: the producer send was called on (by its topic) and the partition key,
\* partition_key = cmd.campaign_id.
send_message(prods, cmd, sendOk) ==
    LET msg == [ topic |-> tracking_click_topic,
                 partition_key |-> cmd.campaign_id ]
    IN  IF tracking_click_topic \notin prods
        THEN [ raised |-> TRUE, error |-> "Producer no encontrado",
               value |-> None, sends |-> 0, msg |-> None ]
        ELSE IF sendOk
        THEN [ raised |-> FALSE, error |-> "", value |-> cmd.click_id,
               sends |-> 1, msg |-> msg ]
        ELSE [ raised |-> TRUE, error |-> "send failed", value |-> None,
               sends |-> 1, msg |-> msg ]

\* ------------------------------------------------------ the wire encoding
\* RegisterClickCommand of the generated schema: its scalar fields in the
\* order they are written
ClickFields ==
    << "command_id", "click_id", "campaign_id", "partner_id", "session_id",
       "user_agent", "ip_address", "referrer", "landing_url" >>

\* cmd.SerializeToString(): one entry per field that holds a value other than
\* its default (a string field that was never assigned, or that holds "", is
\* not written; neither is an empty map; campaign_id and partner_id are never
\* empty), then the envelope
SerializeToString(cmd) ==
    LET written == SelectSeq(ClickFields,
                             LAMBDA f : \/ f \in { "campaign_id", "partner_id" }
                                        \/ Truthy(cmd[f]))
        scalars == [ i \in 1..Len(written) |->
                       [ tag |-> written[i], value |-> cmd[written[i]] ] ]
        map     == IF len(cmd.metadata) > 0
                   THEN << [ tag |-> "metadata", value |-> cmd.metadata ] >>
                   ELSE << >>
    IN  scalars \o map \o << [ tag |-> "meta", value |-> cmd.meta ] >>

\* the value of the entry of data with this tag, if there is one
Entry(data, tag, default) ==
    IF \E i \in 1..Len(data) : data[i].tag = tag
    THEN data[CHOOSE i \in 1..Len(data) : data[i].tag = tag].value
    ELSE default

\* RegisterClickCommand().ParseFromString(data): a field without an entry is
\* absent
ParseFromString(data) ==
    [ command_id  |-> Entry(data, "command_id", None),
      click_id    |-> Entry(data, "click_id", None),
      campaign_id |-> Entry(data, "campaign_id", None),
      partner_id  |-> Entry(data, "partner_id", None),
      session_id  |-> Entry(data, "session_id", None),
      user_agent  |-> Entry(data, "user_agent", None),
      ip_address  |-> Entry(data, "ip_address", None),
      referrer    |-> Entry(data, "referrer", None),
      landing_url |-> Entry(data, "landing_url", None),
      metadata    |-> Entry(data, "metadata", ParamDict(0)),
      meta        |-> Entry(data, "meta", None) ]

\* a publish that builds the command inside the breaker-wrapped operation
publish_click_command_counts_build(b, prods, pb2, req, ip_address, t, n, buildOk, sendOk) ==
    IF ~pb2
    THEN [ cb |-> b, raised |-> TRUE,
           error |-> "Protobuf classes not available", value |-> None,
           breaker_called |-> FALSE, gate |-> "none", invoked |-> FALSE,
           ran_in |-> b.state, sends |-> 0, cmd |-> None, msg |-> None ]
    ELSE LET cmd == RegisterClickCommand(req, ip_address, n)
             f   == IF buildOk THEN send_message(prods, cmd, sendOk)
                    ELSE [ raised |-> TRUE, error |-> "build error",
                           value |-> None, sends |-> 0, msg |-> None ]
             r   == call(b, t, f)
         IN  [ cb |-> r.cb, raised |-> r.raised,
               error |-> r.error, value |-> r.value,
               breaker_called |-> TRUE, gate |-> r.gate, invoked |-> r.invoked,
               ran_in |-> r.ran_in, sends |-> r.sends,
               cmd |-> IF buildOk THEN cmd ELSE None,
               msg |-> IF r.invoked THEN f.msg ELSE None ]

\* PulsarProducer.publish_click_command in request n: the breaker afterwards
\* and what the call raises or returns.
\* buildOk: whether building and serializing the command goes through (FALSE:
\* an assignment to the command or SerializeToString raises).
publish_click_command(b, prods, pb2, req, ip_address, t, n, buildOk, sendOk) ==
    IF ~pb2
    THEN [ cb |-> b, raised |-> TRUE,
           error |-> "Protobuf classes not available", value |-> None,
           breaker_called |-> FALSE, gate |-> "none", invoked |-> FALSE,
           ran_in |-> b.state, sends |-> 0, cmd |-> None, msg |-> None ]
    ELSE IF ~buildOk
    THEN [ cb |-> b, raised |-> TRUE,
           error |-> "build error", value |-> None,
           breaker_called |-> FALSE, gate |-> "none", invoked |-> FALSE,
           ran_in |-> b.state, sends |-> 0, cmd |-> None, msg |-> None ]
    ELSE LET cmd == RegisterClickCommand(req, ip_address, n)
             f   == send_message(prods, cmd, sendOk)
             r   == call(b, t, f)
         IN  [ cb |-> r.cb, raised |-> r.raised,
               error |-> r.error, value |-> r.value,
               breaker_called |-> TRUE, gate |-> r.gate, invoked |-> r.invoked,
               ran_in |-> r.ran_in, sends |-> r.sends, cmd |-> cmd,
               msg |-> IF r.invoked THEN f.msg ELSE None ]

\* PulsarProducer.publish_impression_command in request n: the id it returns
publish_impression_command(req, n) ==
    Or(req.impression_id, Uuid(n, 1))

\* PulsarProducer.publish_conversion_command in request n: the id it returns
publish_conversion_command(req, n) ==
    Or(req.conversion_id, Uuid(n, 1))

\* --------------------------------------------------------------- models.py
\* the validator of utm_params and custom_params: the value it returns, or the
\* ValueError it raises
validate_params(v) ==
    IF v = None THEN [ ok |-> TRUE, v |-> ParamDict(0) ]
    ELSE IF len(v) > MaxParams THEN [ ok |-> FALSE, v |-> v ]
    ELSE [ ok |-> TRUE, v |-> v ]

\* CollectClickRequest(**body): the request, or a validation error
CollectClickRequest(body) ==
    LET u == validate_params(body.utm_params)
        c == validate_params(body.custom_params)
    IN  [ ok  |-> u.ok /\ c.ok,
          req |-> [ body EXCEPT !.utm_params = u.v, !.custom_params = c.v ] ]

\* CollectImpressionRequest(**body): custom_params has no validator
CollectImpressionRequest(body) ==
    [ ok |-> TRUE, req |-> body ]

\* CollectConversionRequest(**body): conversion_data has no validator
CollectConversionRequest(body) ==
    [ ok |-> TRUE, req |-> body ]

\* ------------------------------------------------------------------ app.py
\* a handler that answers SUCCESS with the request's id when the publish raised
collect_click_swallows(prod, b, prods, pb2, req, ip, t, n, buildOk, sendOk) ==
    IF prod # "None"
    THEN LET r == publish_click_command(b, prods, pb2, req, ip, t, n, buildOk,
                                            sendOk)
         IN  [ path |-> "producer", r |-> r,
               status |-> "SUCCESS",
               click_id |-> IF r.raised THEN Or(req.click_id, Uuid(n, 4))
                            ELSE r.value ]
    ELSE LET id == Or(req.click_id, Uuid(n, 1))
         IN  [ path |-> "fallback",
               r |-> [ cb |-> b,
                       raised |-> FALSE, error |-> "", value |-> id,
                       breaker_called |-> FALSE, gate |-> "none",
                       invoked |-> FALSE, ran_in |-> b.state, sends |-> 0,
                       cmd |-> None, msg |-> None ],
               status |-> "SUCCESS",
               click_id |-> id ]

\* a handler whose no-producer path counts a failure on the breaker
collect_click_counts_fallback(prod, b, prods, pb2, req, ip, t, n, buildOk, sendOk) ==
    IF prod # "None"
    THEN LET r == publish_click_command(b, prods, pb2, req, ip, t, n, buildOk,
                                            sendOk)
         IN  [ path |-> "producer", r |-> r,
               status |-> IF r.raised THEN "HTTP_500" ELSE "SUCCESS",
               click_id |-> IF r.raised THEN None ELSE r.value ]
    ELSE LET id == Or(req.click_id, Uuid(n, 1))
         IN  [ path |-> "fallback",
               r |-> [ cb |-> _on_failure(b, t),
                       raised |-> FALSE, error |-> "", value |-> id,
                       breaker_called |-> FALSE, gate |-> "none",
                       invoked |-> FALSE, ran_in |-> b.state, sends |-> 0,
                       cmd |-> None, msg |-> None ],
               status |-> "SUCCESS",
               click_id |-> id ]

\* collect_click: the response, and what the handler did to the producer.
\* prod is the injected producer ("None" or "PulsarProducer").
collect_click(prod, b, prods, pb2, req, ip, t, n, buildOk, sendOk) ==
    IF prod # "None"
    THEN LET r == publish_click_command(b, prods, pb2, req, ip, t, n, buildOk,
                                            sendOk)
         IN  [ path |-> "producer", r |-> r,
               status |-> IF r.raised THEN "HTTP_500" ELSE "SUCCESS",
               click_id |-> IF r.raised THEN None ELSE r.value ]
    ELSE LET id == Or(req.click_id, Uuid(n, 1))
         IN  [ path |-> "fallback",
               r |-> [ cb |-> b,
                       raised |-> FALSE, error |-> "", value |-> id,
                       breaker_called |-> FALSE, gate |-> "none",
                       invoked |-> FALSE, ran_in |-> b.state, sends |-> 0,
                       cmd |-> None, msg |-> None ],
               status |-> "SUCCESS",
               click_id |-> id ]

\* collect_impression: the response
collect_impression(prod, req, n) ==
    [ path   |-> IF prod # "None" THEN "producer" ELSE "fallback",
      status |-> "SUCCESS",
      impression_id |-> IF prod # "None"
                        THEN publish_impression_command(req, n)
                        ELSE Or(req.impression_id, Uuid(n, 1)) ]

\* collect_conversion: the response
collect_conversion(prod, req, n) ==
    [ path   |-> IF prod # "None" THEN "producer" ELSE "fallback",
      status |-> "SUCCESS",
      conversion_id |-> IF prod # "None"
                        THEN publish_conversion_command(req, n)
                        ELSE Or(req.conversion_id, Uuid(n, 1)) ]

\* health_check: checks["pulsar"] and the overall status
health_check(prod, conn, b, prods) ==
    IF prod # "None"
    THEN [ pulsar |-> get_health_status(conn, b, prods),
           status |-> IF conn THEN "healthy" ELSE "degraded" ]
    ELSE [ pulsar |-> [ status |-> "not_connected" ],
           status |-> "degraded" ]

\* ------------------------------------------------------------ the machine
Threads == 1..MaxThreads

Requests ==
    [ click_id : ClickIdInputs, campaign_id : CampaignIds,
      partner_id : PartnerIds,
      session_id : { None }, user_agent : { None }, ip_address : { None },
      referrer : { None }, landing_url : { None },
      utm_params : { ParamDict(0) }, custom_params : { ParamDict(0) } ]

\* the sets of topics startup ends with in Spec: every topic, or every topic
\* but the click topic
CreatedSets == { TopicSet, TopicSet \ {tracking_click_topic} }

\* last: the last operation (a request, a health check, the shutdown)
\*   click_id   the identifier the request was answered with (click_id,
\*              impression_id or conversion_id), None if it was answered none
\*   raised     the operation raised to its caller
\*   health     what health_check answered
\*   closes     the close() calls disconnect made, in order
\*   delivered  producer.send was invoked and returned
\*   ip      the client address the handler passed to the publish
\*   build_ok  building and serializing the command would go through
\*   data, decoded  (SpecCodec) the serialized command and what parsing it gives
\*   cmd     the command built for it, msg  what producer.send was called with
\*   waited  time.time() - last_failure_time when the request came in and the
\*           breaker was OPEN, else -1
NoCall ==
    [ op |-> "none",
      req |-> [ click_id |-> None, campaign_id |-> "camp-1",
                partner_id |-> "p-1",
                session_id |-> None, user_agent |-> None, ip_address |-> None,
                referrer |-> None, landing_url |-> None,
                utm_params |-> ParamDict(0), custom_params |-> ParamDict(0) ],
      ip |-> None, build_ok |-> TRUE, cmd |-> None, msg |-> None,
      data |-> None, decoded |-> None,
      path |-> "none", status |-> "none", error |-> "", raised |-> FALSE,
      health |-> None, closes |-> << >>,
      click_id |-> None, breaker_called |-> FALSE, gate |-> "none",
      invoked |-> FALSE, ran_in |-> CLOSED, sends |-> 0, delivered |-> FALSE,
      waited |-> -1 ]

\* hist: what an observer of the whole run has kept
\*   failures   wrapped operations that failed since the breaker was created,
\*              counted up to failure_threshold + 1
\*   successes  whether a wrapped operation has succeeded since then
\*   connect_ok whether connect() returned at startup
\*   trial_failed_at  time of the latest Half-Open trial if it failed and
\*              no operation has been invoked since, else -1
\*   consecutive  wrapped operations that failed since the last one that
\*              succeeded (or since the breaker was created)
\*   create_ok  the topics whose create_producer returned at startup
\*   attempted  the topics create_producer was called for, in order
\*   sent       (SpecPipe) the calls of producer.send in the order they were
\*              made: the request's number, its campaign, whether it returned
Hist0 ==
    [ failures |-> 0, successes |-> FALSE, connect_ok |-> FALSE,
      trial_failed_at |-> -1, consecutive |-> 0,
      create_ok |-> {}, attempted |-> << >>, sent |-> << >> ]

\* loc[th]: what caller th holds
\*   ran_in, read  (SpecConc) the state func was started in, the failure_count
\*                 _on_failure has read
\*   req, n, send_ok  (SpecPipe) the request being handled, its number, and
\*                 whether producer.send will return for it
Loc0 ==
    [ ran_in |-> CLOSED, read |-> 0, req |-> NoCall.req, n |-> 0,
      send_ok |-> TRUE ]

Init ==
    /\ phase = "created"
    /\ settings \in [ debug : BOOLEAN,
                      circuit_breaker_failure_threshold : 1..MaxThreshold,
                      circuit_breaker_recovery_timeout : 1..MaxRecovery ]
    /\ tracking_pb2 \in BOOLEAN
    /\ pulsar_producer = "None"
    /\ connected = FALSE
    /\ client = "None"
    /\ producers = {}
    /\ cb = CircuitBreaker(settings.circuit_breaker_failure_threshold,
                           settings.circuit_breaker_recovery_timeout)
    /\ now = 0
    /\ calls = 0
    /\ last = NoCall
    /\ hist = Hist0
    /\ pc = [ th \in Threads |-> "idle" ]
    /\ loc = [ th \in Threads |-> Loc0 ]

\* lifespan, startup: PulsarProducer(settings), then connect().
\* clientOk: pulsar.Client(...) returns; created: the topics whose
\* create_producer returns (the others raise and are skipped).
lifespan_startup(clientOk, created) ==
    /\ phase = "created"
    /\ phase' = "serving"
    /\ cb' = CircuitBreaker(settings.circuit_breaker_failure_threshold,
                            settings.circuit_breaker_recovery_timeout)
    /\ IF clientOk
       THEN /\ client' = "open"
            /\ producers' = _create_producers(created).producers
            /\ connected' = TRUE
            /\ pulsar_producer' = "PulsarProducer"
       ELSE /\ client' = "None"
            /\ producers' = {}
            /\ connected' = FALSE
            /\ pulsar_producer' = IF settings.debug THEN "None"
                                  ELSE "PulsarProducer"
    /\ hist' = [ hist EXCEPT
           !.connect_ok = clientOk,
           !.create_ok  = IF clientOk THEN created ELSE {},
           !.attempted  = IF clientOk THEN _create_producers(created).attempted
                          ELSE << >> ]
    /\ UNCHANGED << settings, tracking_pb2, now, calls, last, pc, loc >>

Startup ==
    \E clientOk \in BOOLEAN, created \in CreatedSets :
        lifespan_startup(clientOk, created)

\* what an observer records of a click request handled as c (the result of
\* collect_click) when the breaker was b at time t
LastClick(c, req, ip, buildOk, sendOk, b, t) ==
    [ op |-> "collect_click", req |-> req, ip |-> ip,
      build_ok |-> buildOk,
      data |-> None, decoded |-> None,
      cmd |-> c.r.cmd, msg |-> c.r.msg,
      path |-> c.path, status |-> c.status,
      error |-> c.r.error, raised |-> c.r.raised,
      health |-> None, closes |-> << >>,
      click_id |-> c.click_id,
      breaker_called |-> c.r.breaker_called, gate |-> c.r.gate,
      invoked |-> c.r.invoked, ran_in |-> c.r.ran_in,
      sends |-> c.r.sends,
      delivered |-> c.r.sends = 1 /\ sendOk,
      waited |-> IF c.r.breaker_called /\ b.state = OPEN
                 THEN t - b.last_failure_time ELSE -1 ]

\* hist after a click request handled as c when the breaker was b at time t
HistClick(h, c, b, t) ==
    LET r == c.r
        trial == r.invoked /\ r.gate = "trial"
        cap == b.failure_threshold + 1
    IN  [ h EXCEPT
            !.failures = IF r.invoked /\ r.raised /\ @ < cap
                         THEN @ + 1 ELSE @,
            !.successes = @ \/ (r.invoked /\ ~r.raised),
            !.consecutive = IF r.invoked /\ r.raised THEN @ + 1
                            ELSE IF r.invoked THEN 0 ELSE @,
            !.trial_failed_at =
                IF trial /\ r.raised THEN t
                ELSE IF r.invoked THEN -1 ELSE @ ]

\* POST /collect/click
\* ip: get_client_ip(client_request)
CollectClick(req, ip, buildOk, sendOk) ==
    /\ phase = "serving"
    /\ calls < MaxCalls
    /\ LET c == collect_click(pulsar_producer, cb, producers, tracking_pb2,
                              req, ip, now, calls + 1, buildOk, sendOk)
       IN  /\ cb' = c.r.cb
           /\ calls' = calls + 1
           /\ last' = LastClick(c, req, ip, buildOk, sendOk, cb, now)
           /\ hist' = HistClick(hist, c, cb, now)
    /\ UNCHANGED << phase, settings, tracking_pb2, pulsar_producer, connected,
                    client, producers, now, pc, loc >>

Click ==
    \E req \in Requests, sendOk \in BOOLEAN :
        CollectClick(req, ClientIp, TRUE, sendOk)

\* time passes
Tick ==
    /\ now < MaxTime
    /\ now' = now + 1
    /\ UNCHANGED << phase, settings, tracking_pb2, pulsar_producer, connected,
                    client, producers, cb, calls, last, hist, pc, loc >>

Next == Startup \/ Click \/ Tick

Spec == Init /\ [][Next]_vars

\* --------------------------------------------------- the commands that are sent
\* SpecCmd: startup and click requests of more than one campaign, no clock
\* utm_params and custom_params as the request model accepts them: both
\* empty, or both with the most entries allowed and no key in common
ParamPairs ==
    { << ParamDict(0), ParamDict(0) >>,
      << ParamDict(MaxParams),
         ParamDictOf((MaxParams + 1)..(MaxParams + MaxParams)) >> }

CmdRequests ==
    { [ click_id |-> c, campaign_id |-> m, partner_id |-> p,
        session_id |-> None, user_agent |-> None, ip_address |-> None,
        referrer |-> None, landing_url |-> None,
        utm_params |-> pp[1], custom_params |-> pp[2] ] :
      c \in ClickIdInputs, m \in { "camp-1", "camp-2" }, p \in PartnerIds,
      pp \in ParamPairs }

ClickCmd ==
    /\ calls < MaxOps
    /\ \E req \in CmdRequests, buildOk \in BOOLEAN, sendOk \in BOOLEAN :
          CollectClick(req, ClientIp, buildOk, sendOk)

NextCmd == Startup \/ ClickCmd

SpecCmd == Init /\ [][NextCmd]_vars

\* ------------------------------------------- the stages of a pipeline call
\* SpecPipe: click handlers as coroutines of one event loop, a stage at a time.
\* pc[th]: "idle", "validated" (the handler holds a validated request),
\* "encoded" (the command is built and serialized), "sent" (producer.send was
\* called). A handler that has left the last stage is "idle" again and its
\* outcome is in last.

\* handler th is inside its pipeline call
InPipeline(th) == pc[th] \in { "validated", "encoded", "sent" }

\* an event loop that switches to another handler between two stages
CanStart_anytime(th) == pc[th] = "idle"

\* The event loop can start handler th: publish_click_command has no await, so
\* a handler that has started its pipeline call runs to its end before the
\* loop runs another one.
CanStart(th) ==
    /\ pc[th] = "idle"
    /\ \A o \in Threads : ~InPipeline(o)

PipeRequests ==
    [ click_id : { None }, campaign_id : { "camp-1", "camp-2" },
      partner_id : PartnerIds,
      session_id : { None }, user_agent : { None }, ip_address : { None },
      referrer : { None }, landing_url : { None },
      utm_params : { ParamDict(0) }, custom_params : { ParamDict(0) } ]

\* the handler is entered with a validated request
p_start(th, req, sendOk) ==
    /\ phase = "serving"
    /\ calls < MaxOps
    /\ CanStart(th)
    /\ calls' = calls + 1
    /\ pc' = [ pc EXCEPT ![th] = "validated" ]
    /\ loc' = [ loc EXCEPT ![th].req = req, ![th].n = calls + 1,
                           ![th].send_ok = sendOk ]
    /\ UNCHANGED << phase, settings, tracking_pb2, pulsar_producer, connected,
                    client, producers, cb, now, last, hist >>

\* the pipeline call of handler th, as collect_click runs it
Pipeline(th) ==
    collect_click(pulsar_producer, cb, producers, tracking_pb2, loc[th].req,
                  ClientIp, now, loc[th].n, TRUE, loc[th].send_ok)

\* the handler returns or raises: the breaker is updated, the outcome recorded
p_end(th, c, h) ==
    /\ pc' = [ pc EXCEPT ![th] = "idle" ]
    /\ cb' = c.r.cb
    /\ last' = LastClick(c, loc[th].req, ClientIp, TRUE, loc[th].send_ok,
                         cb, now)
    /\ hist' = HistClick(h, c, cb, now)
    /\ loc' = [ loc EXCEPT ![th] = Loc0 ]
    /\ UNCHANGED << phase, settings, tracking_pb2, pulsar_producer, connected,
                    client, producers, now, calls >>

\* the next stage of handler th
p_step(th) ==
    /\ InPipeline(th)
    /\ \E c \in { Pipeline(th) } :
       \/ /\ pc[th] = "validated"
          /\ IF c.path = "fallback" \/ ~c.r.breaker_called
             THEN p_end(th, c, hist)
             ELSE /\ pc' = [ pc EXCEPT ![th] = "encoded" ]
                  /\ UNCHANGED << phase, settings, tracking_pb2,
                                  pulsar_producer, connected, client,
                                  producers, cb, now, calls, last, hist, loc >>
       \/ /\ pc[th] = "encoded"
          /\ IF c.r.sends = 0
             THEN p_end(th, c, hist)
             ELSE /\ pc' = [ pc EXCEPT ![th] = "sent" ]
                  /\ hist' = [ hist EXCEPT !.sent =
                                 Append(@, [ n |-> loc[th].n,
                                             campaign_id |->
                                                 c.r.msg.partition_key,
                                             ok |-> loc[th].send_ok ]) ]
                  /\ UNCHANGED << phase, settings, tracking_pb2,
                                  pulsar_producer, connected, client,
                                  producers, cb, now, calls, last, loc >>
       \/ /\ pc[th] = "sent"
          /\ p_end(th, c, hist)

\* the event loop runs the handler that is inside its pipeline call
Run == \E th \in Threads : p_step(th)

NextPipe ==
    \/ Startup
    \/ \E th \in Threads, req \in PipeRequests, sendOk \in BOOLEAN :
          p_start(th, req, sendOk)
    \/ Run

\* No time passes in SpecPipe and nothing in it reads settings.debug, so one
\* recovery timeout and one debug setting stand for all.
InitPipe ==
    /\ Init
    /\ ~settings.debug
    /\ settings.circuit_breaker_recovery_timeout = MaxRecovery

\* The event loop keeps running a handler that can take a step: building and
\* serializing return or raise, and producer.send returns or raises within
\* send_timeout_ms.
SpecPipe == InitPipe /\ [][NextPipe]_vars /\ WF_vars(Run)

\* ------------------------------------------------ building a click command
\* SpecCodec: the command publish_click_command builds, serialized and parsed
\* back, for every combination of the inputs below.

\* the client address passed to publish_click_command: none, empty, an address
IpInputs == { None, Str(""), Str("10.0.0.1") }

\* click requests with their optional fields absent, empty or set
FieldRequests ==
    { [ click_id |-> c, campaign_id |-> "camp-1", partner_id |-> "p-1",
        session_id |-> s, user_agent |-> u, ip_address |-> a,
        referrer |-> r, landing_url |-> l,
        utm_params |-> pp[1], custom_params |-> pp[2] ] :
      c \in { None, Str("c1") },
      s \in { None, Str(""), Str("s-1") },
      u \in { None, Str("ua") },
      a \in { None, Str("1.2.3.4") },
      r \in { None, Str("http://r") },
      l \in { None, Str("http://l") },
      pp \in ParamPairs }

InitCodec ==
    /\ phase = "serving"
    /\ settings = [ debug |-> FALSE,
                    circuit_breaker_failure_threshold |-> 1,
                    circuit_breaker_recovery_timeout |-> 1 ]
    /\ tracking_pb2 = TRUE
    /\ pulsar_producer = "PulsarProducer"
    /\ connected = TRUE
    /\ client = "open"
    /\ producers = TopicSet
    /\ cb = CircuitBreaker(settings.circuit_breaker_failure_threshold,
                           settings.circuit_breaker_recovery_timeout)
    /\ now = 0
    /\ calls = 0
    /\ last \in { [ NoCall EXCEPT !.op = "record", !.req = req, !.ip = ip ] :
                     req \in FieldRequests, ip \in IpInputs }
    /\ hist = Hist0
    /\ pc = [ th \in Threads |-> "idle" ]
    /\ loc = [ th \in Threads |-> Loc0 ]

\* the first part of publish_click_command: build the command and serialize
\* it; then parse the bytes back
BuildCommand ==
    /\ last.op = "record"
    /\ LET cmd  == RegisterClickCommand(last.req, last.ip, 1)
           data == SerializeToString(cmd)
       IN  last' = [ last EXCEPT !.op = "command", !.cmd = cmd,
                                 !.data = data,
                                 !.decoded = ParseFromString(data) ]
    /\ UNCHANGED << phase, settings, tracking_pb2, pulsar_producer, connected,
                    client, producers, cb, now, calls, hist, pc, loc >>

NextCodec == BuildCommand

SpecCodec == InitCodec /\ [][NextCodec]_vars

\* ------------------------------------------------- every operation of the app
\* SpecOps: the three collect endpoints with request bodies as they arrive
\* (validated by the request models), the health check and the shutdown.

\* the bodies of POST /collect/click
ClickBodies ==
    [ click_id : { None }, campaign_id : CampaignIds, partner_id : PartnerIds,
      session_id : { None }, user_agent : { None }, ip_address : { None },
      referrer : { None }, landing_url : { None },
      utm_params : { ParamDict(0) }, custom_params : ParamInputs ]

\* the bodies of POST /collect/impression
ImpressionBodies ==
    [ impression_id : EventIdInputs, campaign_id : CampaignIds,
      partner_id : PartnerIds, custom_params : ParamInputs ]

\* the bodies of POST /collect/conversion
ConversionBodies ==
    [ conversion_id : EventIdInputs, campaign_id : CampaignIds,
      partner_id : PartnerIds, conversion_data : { ParamDict(0) } ]

\* a request body the request model rejects: answered 422, the handler is
\* not entered
Rejected(op, body) ==
    /\ phase = "serving"
    /\ calls < MaxOps
    /\ calls' = calls + 1
    /\ last' = [ NoCall EXCEPT !.op = op, !.req = body,
                                !.status = "HTTP_422", !.raised = TRUE,
                                !.error = "validation error",
                                !.ran_in = cb.state ]
    /\ UNCHANGED << phase, settings, tracking_pb2, pulsar_producer, connected,
                    client, producers, cb, now, hist, pc, loc >>

\* POST /collect/click with a body
PostClick(body, sendOk) ==
    LET m == CollectClickRequest(body)
    IN  IF m.ok THEN CollectClick(m.req, ClientIp, TRUE, sendOk)
        ELSE Rejected("collect_click", body)

\* POST /collect/impression with a body
PostImpression(body) ==
    LET m == CollectImpressionRequest(body)
        c == collect_impression(pulsar_producer, m.req, calls + 1)
    IN  IF ~m.ok THEN Rejected("collect_impression", body)
        ELSE /\ phase = "serving"
             /\ calls < MaxOps
             /\ calls' = calls + 1
             /\ last' = [ NoCall EXCEPT !.op = "collect_impression",
                                         !.req = m.req, !.path = c.path,
                                         !.status = c.status,
                                         !.click_id = c.impression_id,
                                         !.ran_in = cb.state ]
             /\ UNCHANGED << phase, settings, tracking_pb2, pulsar_producer,
                             connected, client, producers, cb, now, hist,
                             pc, loc >>

\* POST /collect/conversion with a body
PostConversion(body) ==
    LET m == CollectConversionRequest(body)
        c == collect_conversion(pulsar_producer, m.req, calls + 1)
    IN  IF ~m.ok THEN Rejected("collect_conversion", body)
        ELSE /\ phase = "serving"
             /\ calls < MaxOps
             /\ calls' = calls + 1
             /\ last' = [ NoCall EXCEPT !.op = "collect_conversion",
                                         !.req = m.req, !.path = c.path,
                                         !.status = c.status,
                                         !.click_id = c.conversion_id,
                                         !.ran_in = cb.state ]
             /\ UNCHANGED << phase, settings, tracking_pb2, pulsar_producer,
                             connected, client, producers, cb, now, hist,
                             pc, loc >>

\* GET /health
HealthCheck ==
    /\ phase = "serving"
    /\ LET h == health_check(pulsar_producer, connected, cb, producers)
       IN  last' = [ NoCall EXCEPT !.op = "health_check", !.health = h,
                                   !.status = h.status,
                                   !.path = IF pulsar_producer # "None"
                                            THEN "producer" ELSE "fallback",
                                   !.ran_in = cb.state ]
    /\ UNCHANGED << phase, settings, tracking_pb2, pulsar_producer, connected,
                    client, producers, cb, now, calls, hist, pc, loc >>

\* lifespan, shutdown: disconnect() if there is a producer object.
\* failing: the producers whose close() raises; clientOk: client.close() returns.
lifespan_shutdown(failing, clientOk) ==
    /\ phase = "serving"
    /\ phase' = "stopped"
    /\ IF pulsar_producer # "None"
       THEN LET d == disconnect(connected, client, producers, failing, clientOk)
            IN  /\ connected' = d.connected
                /\ client' = d.client
                /\ producers' = d.producers
                /\ last' = [ NoCall EXCEPT !.op = "disconnect",
                                            !.path = "producer",
                                            !.closes = d.closes,
                                            !.raised = d.raised,
                                            !.ran_in = cb.state ]
       ELSE /\ last' = [ NoCall EXCEPT !.op = "shutdown", !.path = "fallback",
                                        !.ran_in = cb.state ]
            /\ UNCHANGED << connected, client, producers >>
    /\ UNCHANGED << settings, tracking_pb2, pulsar_producer, cb, now, calls,
                    hist, pc, loc >>

\* shutdown in SpecOps: every close() returns, or every close() raises
ShutdownOps ==
    \E failing \in { {}, producers }, clientOk \in BOOLEAN :
        lifespan_shutdown(failing, clientOk)

ClickOps ==
    /\ calls < MaxOps
    /\ \E body \in ClickBodies, sendOk \in BOOLEAN : PostClick(body, sendOk)

Impression == \E body \in ImpressionBodies : PostImpression(body)

Conversion == \E body \in ConversionBodies : PostConversion(body)

NextOps ==
    \/ Startup \/ ClickOps \/ Impression \/ Conversion \/ HealthCheck
    \/ ShutdownOps \/ Tick

SpecOps == Init /\ [][NextOps]_vars

\* ------------------------------------------------------------- the pool alone
\* SpecPool: startup with any subset of the topics failing, the health check,
\* shutdown with any subset of the close() calls failing
StartupAny ==
    \E clientOk \in BOOLEAN, created \in SUBSET TopicSet :
        lifespan_startup(clientOk, created)

Shutdown ==
    \E failing \in SUBSET producers, clientOk \in BOOLEAN :
        lifespan_shutdown(failing, clientOk)

NextPool == StartupAny \/ HealthCheck \/ Shutdown

SpecPool == Init /\ [][NextPool]_vars

\* ------------------------------------------- concurrent callers of the breaker
\* CircuitBreaker.call run by several threads on one breaker, a statement at a
\* time. pc[th]: "idle" (outside call), "func" (inside func), "failing" (in
\* _on_failure, failure_count read and not yet written back).

\* the check at the head of call, up to the invocation of func
c_enter(th) ==
    /\ pc[th] = "idle"
    /\ calls < MaxCalls
    /\ calls' = calls + 1
    /\ LET g == Gate(cb, now) IN
       \/ /\ g = "reject"
          /\ UNCHANGED << cb, pc, loc >>
       \/ /\ g = "trial"
          /\ cb' = [ cb EXCEPT !.state = HALF_OPEN ]
          /\ pc' = [ pc EXCEPT ![th] = "func" ]
          /\ loc' = [ loc EXCEPT ![th].ran_in = HALF_OPEN ]
       \/ /\ g = "pass"
          /\ pc' = [ pc EXCEPT ![th] = "func" ]
          /\ loc' = [ loc EXCEPT ![th].ran_in = cb.state ]
          /\ UNCHANGED cb
    /\ UNCHANGED << phase, settings, tracking_pb2, pulsar_producer, connected,
                    client, producers, now, last, hist >>

\* func returns: _on_success
c_return(th) ==
    /\ pc[th] = "func"
    /\ cb' = _on_success(cb)
    /\ pc' = [ pc EXCEPT ![th] = "idle" ]
    /\ hist' = [ hist EXCEPT !.successes = TRUE ]
    /\ UNCHANGED << phase, settings, tracking_pb2, pulsar_producer, connected,
                    client, producers, now, calls, last, loc >>

\* func raises: _on_failure reads failure_count ...
c_raise(th) ==
    /\ pc[th] = "func"
    /\ pc' = [ pc EXCEPT ![th] = "failing" ]
    /\ loc' = [ loc EXCEPT ![th].read = cb.failure_count ]
    /\ UNCHANGED << phase, settings, tracking_pb2, pulsar_producer, connected,
                    client, producers, cb, now, calls, last, hist >>

\* ... and writes it back incremented, sets last_failure_time and the state
c_fail_write(th) ==
    /\ pc[th] = "failing"
    /\ cb' = _on_failure([ cb EXCEPT !.failure_count = loc[th].read ], now)
    /\ pc' = [ pc EXCEPT ![th] = "idle" ]
    /\ hist' = [ hist EXCEPT !.failures =
                    IF @ < MaxCalls THEN @ + 1 ELSE @ ]
    /\ UNCHANGED << phase, settings, tracking_pb2, pulsar_producer, connected,
                    client, producers, now, calls, last, loc >>

NextConc ==
    \/ \E th \in Threads :
          c_enter(th) \/ c_return(th) \/ c_raise(th) \/ c_fail_write(th)
    \/ Tick

SpecConc == Init /\ [][NextConc]_vars

\* ------------------------------------------ the breaker under unending calls
\* SpecLive: CircuitBreaker.call called again and again while time passes,
\* with no bound on the number of calls or on the time.

\* func, as call invokes it: it raises or it returns
FuncResults ==
    { [ raised |-> TRUE, error |-> "send failed", value |-> None,
        sends |-> 1 ],
      [ raised |-> FALSE, error |-> "", value |-> Str("ok"), sends |-> 1 ] }

\* one call of CircuitBreaker.call(func), func ending as f if it is invoked.
\* failure_count has no upper limit in the code (every failed trial adds one);
\* the guard stops func failing at MaxThreshold + MaxCalls, above every
\* threshold, where a higher count changes nothing call does.
BreakerCall(f) ==
    /\ phase = "serving"
    /\ pulsar_producer = "PulsarProducer"
    /\ f.raised => cb.failure_count < MaxThreshold + MaxCalls
    /\ \E r \in { call(cb, now, f) } :
          /\ cb' = r.cb
          /\ last' = [ NoCall EXCEPT !.op = "call", !.gate = r.gate,
                                     !.invoked = r.invoked,
                                     !.ran_in = r.ran_in,
                                     !.raised = r.raised, !.error = r.error,
                                     !.breaker_called = TRUE ]
    /\ UNCHANGED << phase, settings, tracking_pb2, pulsar_producer, connected,
                    client, producers, now, calls, hist, pc, loc >>

\* a caller calls the breaker
Calls == \E f \in FuncResults : BreakerCall(f)

\* Time passes, without end. The breaker reads the clock only in
\* time.time() - last_failure_time > recovery_timeout, and only when it is
\* OPEN: once the clock has reached MaxTime, a unit of time is counted by
\* moving last_failure_time of an OPEN breaker back by one instead, until the
\* difference is above recovery_timeout (where more time changes nothing).
Elapse ==
    /\ IF now < MaxTime
       THEN /\ now' = now + 1
            /\ cb' = cb
       ELSE /\ now' = now
            /\ cb' = IF /\ cb.state = OPEN
                        /\ now - cb.last_failure_time <= cb.recovery_timeout
                     THEN [ cb EXCEPT !.last_failure_time = @ - 1 ]
                     ELSE cb
    /\ UNCHANGED << phase, settings, tracking_pb2, pulsar_producer, connected,
                    client, producers, calls, last, hist, pc, loc >>

NextLive == Startup \/ Calls \/ Elapse

\* time advances and calls keep arriving
SpecLive ==
    Init /\ [][NextLive]_vars /\ WF_vars(Elapse) /\ WF_vars(Calls)

\* ------------------------------------------------------------------ claims
IsClick == last.op = "collect_click"

\* a step that handles one click request
ClickStep == calls' = calls + 1 /\ last'.op = "collect_click"

\* the id a click request is answered with when it is answered at all
ExpectedId(req, n, path) ==
    IF Truthy(req.click_id) THEN req.click_id
    ELSE IF path = "producer" THEN Uuid(n, 2) ELSE Uuid(n, 1)

\* C1: from a fresh breaker and with no success in between, fewer than
\* failure_threshold failed calls leave the breaker Closed with failure_count
\* equal to their number; exactly failure_threshold of them leave it Open with
\* failure_count = failure_threshold, and get_health_status reports both.
C1_ThresholdOpens ==
    ~hist.successes =>
        /\ hist.failures < cb.failure_threshold =>
              /\ cb.state = CLOSED
              /\ cb.failure_count = hist.failures
        /\ hist.failures = cb.failure_threshold =>
              /\ cb.state = OPEN
              /\ cb.failure_count = cb.failure_threshold
              /\ get_health_status(connected, cb, producers)
                    .circuit_breaker_state = "open"
              /\ get_health_status(connected, cb, producers)
                    .failure_count = cb.failure_threshold

C1_Witness ==
    /\ ~hist.successes
    /\ cb.failure_threshold > 1
    /\ hist.failures = cb.failure_threshold
    /\ cb.state = OPEN

\* C2: a call that finds the breaker Open when at most recovery_timeout has
\* elapsed since last_failure_time (exactly recovery_timeout included) is
\* rejected with the circuit-open error and func is not invoked; func is invoked
\* from Open only when more has elapsed, and then it runs in Half-Open.
C2_OpenGate ==
    last.waited >= 0 =>
        /\ last.waited <= cb.recovery_timeout =>
              /\ ~last.invoked
              /\ last.sends = 0
              /\ last.status = "HTTP_500"
              /\ last.error = "Circuit breaker is OPEN"
        /\ last.invoked =>
              /\ last.waited > cb.recovery_timeout
              /\ last.ran_in = HALF_OPEN

C2_Witness ==
    /\ last.waited = cb.recovery_timeout
    /\ last.gate = "reject"
    /\ ~last.invoked

\* C4: when the Half-Open trial succeeds, failure_count is 0, the state is
\* Closed and the caller gets the trial's result.
C4_TrialSuccess ==
    (IsClick /\ last.gate = "trial" /\ last.delivered) =>
        /\ cb.failure_count = 0
        /\ cb.state = CLOSED
        /\ last.status = "SUCCESS"
        /\ last.click_id = ExpectedId(last.req, calls, last.path)

C4_Witness ==
    IsClick /\ last.gate = "trial" /\ last.delivered /\ cb.state = CLOSED

\* C5: when the Half-Open trial fails the state is Open again and
\* last_failure_time is the time of that failure; a later call is rejected,
\* func not invoked, as long as at most recovery_timeout has elapsed since the
\* trial failed, and is let through once more has elapsed.
C5_TrialFailure ==
    /\ [](hist.trial_failed_at >= 0 =>
            /\ cb.state = OPEN
            /\ cb.last_failure_time = hist.trial_failed_at)
    /\ [][(ClickStep /\ hist.trial_failed_at >= 0) =>
            IF now - hist.trial_failed_at <= cb.recovery_timeout
            THEN ~last'.invoked /\ last'.gate = "reject" /\ last'.sends = 0
            ELSE last'.invoked /\ last'.gate = "trial"]_vars

C5_Witness ==
    /\ hist.trial_failed_at >= 0
    /\ hist.trial_failed_at > cb.recovery_timeout
    /\ last.gate = "reject"
    /\ now > hist.trial_failed_at

C7_StrictFails ==
    (IsClick /\ last.path = "producer") =>
        /\ ~last.delivered =>
              (last.status = "HTTP_500" /\ last.click_id = None)
        /\ last.status = "SUCCESS" => last.delivered

C7_Witness ==
    /\ IsClick
    /\ last.path = "producer"
    /\ last.gate = "reject"
    /\ last.status = "HTTP_500"

\* C8: a click accepted without a producer (degraded) is marked undelivered in
\* the health snapshot: handling it changes what health_check reports.
C8_DegradedMarked ==
    [][(ClickStep /\ last'.path = "fallback" /\ last'.status = "SUCCESS") =>
          health_check(pulsar_producer', connected', cb', producers')
            # health_check(pulsar_producer, connected, cb, producers)]_vars

\* C9: a click whose send failed or which the breaker rejected is answered
\* with the identifier exactly when the debug toggle is on.
C9_ToggleDecides ==
    (IsClick /\ ((last.sends = 1 /\ ~last.delivered) \/ last.gate = "reject"))
        => (last.status = "SUCCESS" <=> settings.debug)

\* C10 as claimed: a click that carries a click_id and is answered SUCCESS is
\* answered with that click_id.
C10_CallerIdReturned ==
    (IsClick /\ last.status = "SUCCESS" /\ last.req.click_id # None) =>
        last.click_id = last.req.click_id

\* C10: a click that carries a non-empty click_id and is answered SUCCESS is
\* answered with that click_id, with and without a producer, and two successive
\* answered clicks with the same non-empty click_id get the same id.
C10_NonEmptyIdReturned ==
    /\ []((IsClick /\ last.status = "SUCCESS" /\ Truthy(last.req.click_id)) =>
            last.click_id = last.req.click_id)
    /\ [][(ClickStep /\ IsClick /\ last.status = "SUCCESS"
             /\ last'.status = "SUCCESS"
             /\ Truthy(last.req.click_id)
             /\ last'.req.click_id = last.req.click_id) =>
            last'.click_id = last.click_id]_vars

C10_Witness ==
    /\ IsClick
    /\ calls > 1
    /\ last.path = "producer"
    /\ last.status = "SUCCESS"
    /\ last.req.click_id = Str("c1")
    /\ last.click_id = Str("c1")

\* C3: at most one wrapped operation that was started in Half-Open is in
\* progress, whatever the interleaving of the callers.
C3_SingleTrial ==
    Cardinality({ th \in Threads :
                    pc[th] = "func" /\ loc[th].ran_in = HALF_OPEN }) <= 1

\* C11: the envelope's eventId of every click command is the event's
\* identifier, the command's click_id.
C11_EventIdIsClickId ==
    (IsClick /\ last.cmd # None) =>
        last.cmd.meta.event_id = last.cmd.click_id

\* C12: every send of a click command goes to the click topic's producer with
\* the record's campaign_id as partition key.
C12_PartitionKey ==
    (IsClick /\ last.sends = 1) =>
        /\ last.msg # None
        /\ last.msg.topic = tracking_click_topic
        /\ last.msg.partition_key = last.req.campaign_id

C12_Witness ==
    /\ IsClick
    /\ calls > 1
    /\ last.sends = 1
    /\ last.req.campaign_id = "camp-2"
    /\ last.msg.partition_key = "camp-2"

\* the three collect endpoints
IsCollect ==
    last.op \in { "collect_click", "collect_impression", "collect_conversion" }

\* C13: with a producer object in use, a request of any of the three kinds is
\* answered with an identifier only after one breaker-guarded send has
\* succeeded; in particular none is answered one while the breaker rejects.
C13_SharedPipeline ==
    (IsCollect /\ last.path = "producer" /\ last.click_id # None) =>
        /\ last.breaker_called
        /\ last.sends = 1
        /\ last.delivered

\* C14: a request of any kind whose custom_params has more than 20 entries is
\* rejected before a command is built or a send is made, and the breaker is
\* left as it was.
C14_ParamBound ==
    [][(calls' = calls + 1 /\ last'.op \in { "collect_click", "collect_impression" }
          /\ len(last'.req.custom_params) > MaxParams) =>
            /\ last'.status = "HTTP_422"
            /\ last'.click_id = None
            /\ last'.cmd = None
            /\ last'.sends = 0
            /\ cb' = cb]_vars

\* C15: whatever the interleaving of the callers, when no call has succeeded
\* and no caller is inside _on_failure, failure_count is the number of calls
\* that failed.
C15_NoLostIncrement ==
    (~hist.successes /\ \A th \in Threads : pc[th] # "failing") =>
        cb.failure_count = hist.failures

\* C16: when connect() has created the client, whichever topics failed to get
\* a producer, connect() has returned with connected set, create_producer was
\* called for all five topics in order, the pool holds exactly the topics whose
\* creation returned, and get_health_status counts exactly those.
C16_PartialProvisioning ==
    (phase = "serving" /\ client = "open") =>
        /\ hist.connect_ok
        /\ connected
        /\ pulsar_producer = "PulsarProducer"
        /\ hist.attempted = topics
        /\ producers = hist.create_ok
        /\ get_health_status(connected, cb, producers).producers_count
              = Cardinality(hist.create_ok)

C16_Witness ==
    /\ phase = "serving"
    /\ connected
    /\ hist.create_ok = { tracking_impression_topic, partner_register_topic }
    /\ producers = { tracking_impression_topic, partner_register_topic }
    /\ last.op = "health_check"
    /\ last.health.pulsar.producers_count = 2

\* a step in which disconnect() runs on a connected pool
DisconnectStep ==
    phase = "serving" /\ phase' = "stopped" /\ connected
        /\ last'.op = "disconnect"

\* the topics of the producers disconnect() called close() on
ClosedTopics(closes) ==
    { closes[i].topic : i \in { j \in 1..Len(closes) :
                                  closes[j].what = "producer" } }

\* C17: disconnect() on a connected pool calls close() once on every producer of
\* the pool, whichever of them fail, then calls close() on the client, after
\* all of them, and does not raise.
C17_BestEffortClose ==
    [][DisconnectStep =>
         /\ ClosedTopics(last'.closes) = producers
         /\ Len(last'.closes) = Cardinality(producers) + 1
         /\ last'.closes[Len(last'.closes)].what = "client"
         /\ \A i \in 1..Len(last'.closes) - 1 :
                /\ last'.closes[i].what = "producer"
                /\ last'.closes[i].ok = FALSE =>
                      \E j \in i + 1..Len(last'.closes) :
                          last'.closes[j].what = "client"
         /\ ~last'.raised]_vars

C17_Witness ==
    /\ last.op = "disconnect"
    /\ Len(last.closes) = 6
    /\ ~last.closes[1].ok
    /\ last.closes[3].ok
    /\ ~last.closes[5].ok
    /\ last.closes[6].what = "client"
    /\ ~last.raised

\* C18: after disconnect() has returned the pool holds no producer and
\* get_health_status reports a producers count of 0.
C18_HandlesDestroyed ==
    (phase = "stopped" /\ last.op = "disconnect") =>
        /\ producers = {}
        /\ get_health_status(connected, cb, producers).producers_count = 0

\* a step in which health_check runs
HealthStep ==
    phase = "serving" /\ phase' = phase /\ now' = now
        /\ last'.op = "health_check"

\* C19: get_health_status returns the current connected flag, breaker state,
\* failure_count and number of producers, and leaves them, last_failure_time
\* and the rest of the breaker as they were: an Open breaker stays Open however
\* long ago it opened.
C19_PureSnapshot ==
    [][(HealthStep /\ pulsar_producer # "None") =>
         /\ last'.health.pulsar.connected = connected
         /\ last'.health.pulsar.circuit_breaker_state = cb.state
         /\ last'.health.pulsar.failure_count = cb.failure_count
         /\ last'.health.pulsar.producers_count = Cardinality(producers)
         /\ UNCHANGED << connected, cb, producers, client >>]_vars

C19_Witness ==
    /\ last.op = "health_check"
    /\ last.path = "producer"
    /\ cb.state = OPEN
    /\ now - cb.last_failure_time > cb.recovery_timeout
    /\ last.health.pulsar.circuit_breaker_state = OPEN
    /\ last.health.pulsar.producers_count = 4

\* C20: the breaker changes only in a click request that went through
\* CircuitBreaker.call and had its operation invoked: startup, shutdown, the
\* health check, impressions, conversions, rejected requests and requests
\* handled without a producer leave state, failure_count and last_failure_time
\* as they were.
C20_BreakerFrame ==
    [][cb' # cb =>
         /\ ClickStep
         /\ last'.path = "producer"
         /\ last'.breaker_called
         /\ last'.invoked]_vars

C20_Witness ==
    /\ last.op = "collect_impression"
    /\ last.path = "producer"
    /\ last.click_id # None
    /\ cb.state = OPEN
    /\ cb.failure_count > 1

\* C25: failure_count is the number of failures since the last success: a
\* success while Closed leaves it 0, and the breaker is Open only when at least
\* failure_threshold failures have occurred in a row, however many have
\* occurred in total.
C25_ConsecutiveOnly ==
    /\ cb.failure_count = hist.consecutive
    /\ cb.state = OPEN => hist.consecutive >= cb.failure_threshold
    /\ (IsClick /\ last.delivered /\ last.ran_in = CLOSED) =>
          (cb.failure_count = 0 /\ cb.state = CLOSED)

C25_Witness ==
    /\ cb.failure_threshold > 1
    /\ hist.successes
    /\ hist.failures = cb.failure_threshold
    /\ hist.consecutive = 1
    /\ cb.state = CLOSED

\* C28: when the click topic has no producer, a publish the breaker lets
\* through makes no send, fails, and adds 1 to failure_count; once
\* failure_threshold of them have failed the breaker is Open, and a publish it
\* rejects fails with the circuit-open error.
C28_MissingProducerCounts ==
    /\ []((phase = "serving" /\ pulsar_producer # "None"
             /\ tracking_click_topic \notin producers
             /\ hist.failures >= cb.failure_threshold) => cb.state = OPEN)
    /\ [][(ClickStep /\ last'.breaker_called
             /\ tracking_click_topic \notin producers) =>
            IF last'.invoked
            THEN /\ last'.sends = 0
                 /\ last'.status = "HTTP_500"
                 /\ cb'.failure_count = cb.failure_count + 1
                 /\ cb'.failure_count >= cb.failure_threshold =>
                       cb'.state = OPEN
            ELSE /\ cb.state = OPEN
                 /\ last'.gate = "reject"
                 /\ last'.error = "Circuit breaker is OPEN"]_vars

C28_Witness ==
    /\ connected
    /\ tracking_click_topic \notin producers
    /\ cb.failure_threshold > 1
    /\ hist.failures = cb.failure_threshold
    /\ cb.state = OPEN
    /\ last.gate = "reject"

\* C30: a call the breaker rejects leaves the breaker as it was: state,
\* failure_count and last_failure_time.
C30_RejectFrame ==
    [][(ClickStep /\ last'.gate = "reject") =>
          /\ cb'.state = cb.state
          /\ cb'.failure_count = cb.failure_count
          /\ cb'.last_failure_time = cb.last_failure_time]_vars

C30_Witness ==
    /\ last.gate = "reject"
    /\ last.waited > 0
    /\ cb.state = OPEN
    /\ cb.failure_count = cb.failure_threshold
    /\ now - cb.last_failure_time = last.waited

\* C26: after disconnect() has run on a connected pool, get_health_status
\* reports connected = false, whichever close() calls failed.
C26_DisconnectedAfter ==
    [][DisconnectStep =>
         ~get_health_status(connected', cb', producers').connected]_vars

\* C27: the metadata of a click command that is sent has at most 20 entries.
C27_MetadataBound ==
    (IsClick /\ last.sends = 1) => len(last.cmd.metadata) <= MaxParams

\* C29: with a producer object in use, a publish that fails before it reaches
\* the breaker (the schema classes are missing, or the command cannot be built
\* or serialized) raises to the handler, invokes neither CircuitBreaker.call nor
\* send, and leaves the breaker as it was.
C29_EarlyFailureFrame ==
    [][(ClickStep /\ last'.path = "producer"
          /\ (~tracking_pb2 \/ ~last'.build_ok)) =>
            /\ last'.raised
            /\ last'.status = "HTTP_500"
            /\ ~last'.breaker_called
            /\ ~last'.invoked
            /\ last'.sends = 0
            /\ cb' = cb]_vars

C29_Witness ==
    /\ IsClick
    /\ last.path = "producer"
    /\ tracking_pb2
    /\ ~last.build_ok
    /\ last.status = "HTTP_500"
    /\ ~last.breaker_called
    /\ cb.failure_count = 1
    /\ cb.state = CLOSED

\* the optional fields of a click command that come from the request
RequestFields == { "session_id", "user_agent", "referrer", "landing_url" }

\* C23: in the command publish_click_command builds, each of session_id,
\* user_agent, referrer and landing_url is set exactly when the request's value
\* is present and non-empty, ip_address exactly when the client address passed
\* in is, and a field that is set holds its input's value.
C23_OptionalFields ==
    last.op = "command" =>
        /\ \A f \in RequestFields :
              /\ last.cmd[f] # None <=> Truthy(last.req[f])
              /\ last.cmd[f] # None => last.cmd[f] = last.req[f]
        /\ last.cmd.ip_address # None <=> Truthy(last.ip)
        /\ last.cmd.ip_address # None => last.cmd.ip_address = last.ip

C23_Witness ==
    /\ last.op = "command"
    /\ last.req.session_id = Str("")
    /\ last.cmd.session_id = None
    /\ last.req.user_agent = None
    /\ last.cmd.user_agent = None
    /\ last.cmd.referrer = Str("http://r")
    /\ last.ip = Str("10.0.0.1")
    /\ last.cmd.ip_address = Str("10.0.0.1")

Returned == last.status = "SUCCESS" /\ last.path = "producer"

DegradedAccepted == last.status = "SUCCESS" /\ last.path = "fallback"

Failed == last.status = "HTTP_500" /\ last.click_id = None

C31_CountMatchesState ==
    cb.failure_threshold >= 1 =>
        /\ cb.state = CLOSED => cb.failure_count < cb.failure_threshold
        /\ cb.state \in { OPEN, HALF_OPEN } =>
              /\ cb.failure_count >= cb.failure_threshold
              /\ cb.last_failure_time \in Nat
              /\ cb.last_failure_time <= now

C31_Witness ==
    /\ IsClick
    /\ cb.state = OPEN
    /\ cb.failure_count > cb.failure_threshold
    /\ last.gate = "trial"
    /\ hist.successes

\* from some point on the wrapped operation succeeds whenever it is invoked
SucceedsFromSomePoint == <>[](last.invoked => ~last.raised)

\* C32: if calls keep arriving, time advances and the wrapped operation
\* succeeds on every call from some point on, the breaker is eventually Closed
\* with failure_count 0 and stays so.
C32_OpenNotPermanent ==
    SucceedsFromSomePoint => <>[](cb.state = CLOSED /\ cb.failure_count = 0)

C32_Witness ==
    /\ last.op = "call"
    /\ last.gate = "trial"
    /\ ~last.raised
    /\ cb.state = CLOSED
    /\ cb.failure_count = 0
    /\ cb.last_failure_time < now - cb.recovery_timeout
    /\ now = MaxTime

====
